---- MODULE Spec2Model ----
(***************************************************************************)
(* Model of prompt-engineer-ai: the profile/cascade selector, the quality  *)
(* scorer and the template resolver (prompt_engineer_ai.py), the HTTP      *)
(* facade (app.py) and the session shell (chat_shell.py).                  *)
(*                                                                         *)
(* Russian words of the source are written in Latin transliteration with   *)
(* the prefix "ru:" (the module is ASCII); a text is modelled by the set    *)
(* of checklist words that occur in it, its letter case, the number of     *)
(* characters between its surrounding whitespace and the amount of that    *)
(* whitespace.                                                             *)
(***************************************************************************)
EXTENDS Integers, Sequences, FiniteSets, TLC

VARIABLES
    entry,             \* which entry point runs: "cli", "lib", "http", "shell", "score", "prompt"
    cfgDoc,            \* the "ollama" section of config.yaml (a record; <<>> when the file is missing)
    systems,           \* templates/system_uz.txt, system_ru.txt: [uz |-> chars, ru |-> chars]
    modes_spec,        \* templates/modes.yaml: mode -> [sections |-> <<...>>] (or <<>> without the key)
    args,              \* the inputs of the entry point (argparse namespace, request body, scorer arguments)
    pc,                \* position of the running entry point
    resolved,          \* the (model, num_ctx) pair the entry point resolved
    prompt,            \* the prompt built by _make_prompt (<<>> before); the instruction, for "score"
    text,              \* the text held by the caller (the empty text before the first generation returns)
    log,               \* backend traffic in order: keep-warm pings and generation calls
                       \* (the shell keeps the traffic of the current loop iteration)
    result,            \* what the entry point hands back: response, error, score, detected language,
                       \* or the file the shell's current iteration wrote
    history,           \* ChatShell.history
    engineer_mode,     \* ChatShell.engineer_mode
    engineer_submode,  \* ChatShell.engineer_submode
    printed            \* the last line the shell printed

vars == <<entry, cfgDoc, systems, modes_spec, args, pc, resolved, prompt, text, log, result,
          history, engineer_mode, engineer_submode, printed>>

None == "None"

----------------------------------------------------------------------------
(* Bounds of the model *)

\* how many checklist headers a generated text may lack
MaxDropped == 1
\* length of a system-prompt document, in characters
MaxDocLen == 2
\* number of (user, assistant) pairs the shell history may hold
MaxTurns == 2
\* characters of a text that holds little more than its headers
ShortBody == 120

----------------------------------------------------------------------------
(* Python helpers *)

\* dict.get(key, default)
Get(d, k, default) == IF k \in DOMAIN d THEN d[k] ELSE default

\* str.startswith on character sequences
StartsWith(s, p) == Len(s) >= Len(p) /\ SubSeq(s, 1, Len(p)) = p

\* the substring test `needle in hay` on character sequences
Contains(hay, needle) ==
    \E i \in 1..(Len(hay) - Len(needle) + 1) :
        SubSeq(hay, i, i + Len(needle) - 1) = needle

\* yaml scalars: [t |-> "int", v |-> n] or [t |-> "str", v |-> s]
YInt(n) == [t |-> "int", v |-> n]
YStr(s) == [t |-> "str", v |-> s]

\* the decimal numerals the model's documents use
Numerals == [n \in {0, 2048, 4096, 8192} |->
               CASE n = 0 -> "0" [] n = 2048 -> "2048" [] n = 4096 -> "4096" [] n = 8192 -> "8192"]

\* str(x) of a yaml scalar
PyStr(y) == IF y.t = "str" THEN y.v ELSE Numerals[y.v]

\* int(x) of a yaml scalar (the documents hold only numerals in strings)
PyInt(y) == IF y.t = "int" THEN y.v
            ELSE CHOOSE n \in DOMAIN Numerals : Numerals[n] = y.v

\* `a or b` for a str or None: None and "" are falsy
StrOr(a, b) == IF a /= None /\ a /= "" THEN a ELSE b

\* `a or b` for an optional int (<<>> is None, <<n>> is n): None and 0 are falsy
IntOr(a, b) == IF a /= <<>> /\ a[1] /= 0 THEN a[1] ELSE b

----------------------------------------------------------------------------
(* Config: RefinerConfig and load_config *)

DefaultModel == "gpt-oss:20b"
DefaultNumCtx == 2048
DefaultKeepAlive == "30m"
DefaultMaxBullets == 10

\* load_config() with the file's "ollama" section oll (<<>> when absent)
load_config(oll) ==
    [ model      |-> PyStr(Get(oll, "model", YStr(DefaultModel))),
      num_ctx    |-> PyInt(Get(oll, "num_ctx", YInt(DefaultNumCtx))),
      max_bullets |-> DefaultMaxBullets,
      keep_alive |-> PyStr(Get(oll, "keep_alive", YStr(DefaultKeepAlive))) ]

\* the preset table built from the loaded config
presets(cfg) ==
    [ speed    |-> [model |-> "qwen2.5:7b", num_ctx |-> 2048],
      balanced |-> [model |-> "mistral:latest", num_ctx |-> 4096],
      max      |-> [model |-> cfg.model, num_ctx |-> cfg.num_ctx] ]

\* faulty variant: an unknown profile falls back to the speed preset
ResolveProfileSpeed(profile, cfg) == Get(presets(cfg), profile, presets(cfg)["speed"])

\* refine(): presets.get(profile, presets["balanced"])
ResolveProfile(profile, cfg) == Get(presets(cfg), profile, presets(cfg)["balanced"])

----------------------------------------------------------------------------
(* Language detection and templates *)

SUPPORTED_MODES == {"coding", "image", "video", "chatgpt"}

\* what langdetect's detect() may do on a text: return a code or raise
DetectOutcomes ==
    { <<"u", "z">>, <<"r", "u">>, <<"e", "n">>, <<"t", "r">>, <<"raise">> }

\* detect_lang given detect()'s outcome
detect_lang(outcome) ==
    IF outcome = <<"raise">> THEN "uz"
    ELSE IF StartsWith(outcome, <<"u", "z">>) THEN "uz"
    ELSE IF StartsWith(outcome, <<"r", "u">>) THEN "ru"
    ELSE "en"

pick_system(lang, sys) == Get(sys, lang, sys["uz"])

\* build_instruction: the header line, then one bullet per section
build_instruction(mode, mspec) ==
    LET mode_spec == Get(mspec, mode, mspec["chatgpt"])
        sections  == Get(mode_spec, "sections", <<>>)
    IN  <<"Bo'limlar / ru:Razdely:">> \o [i \in 1..Len(sections) |-> <<"- ", sections[i]>>]

\* the two worked examples of _make_prompt, by their inputs
examples ==
    [ uz |-> [input |-> "rasm chiz: qizil mashina", output |-> "Maqsad: ... Tekshirish savoli: ..."],
      ru |-> [input |-> "ru:sdelaj prompt dlya telegram-bota", output |-> "ru:Tsel: ... ru:Utochnyayushchij vopros: ..."] ]

\* PromptRefiner._make_prompt, given detect()'s outcome on raw_prompt
make_prompt(raw_prompt, mode, cfg, sys, mspec, outcome) ==
    LET lang        == detect_lang(outcome)
        system      == pick_system(lang, sys)
        instruction == build_instruction(mode, mspec)
        lang_ex     == IF Contains(system, <<"u", "z">>) THEN "uz" ELSE "ru"
        ex          == IF lang_ex \in DOMAIN examples THEN examples[lang_ex]
                       ELSE [input |-> "-", output |-> "-"]
    IN  [ system      |-> system,
          instruction |-> instruction,
          example     |-> ex,
          raw_prompt  |-> raw_prompt,
          max_bullets |-> cfg.max_bullets ]

----------------------------------------------------------------------------
(* Quality scorer *)

\* score_output's table: per mode, the patterns in order, each the set of its alternatives
checks ==
    [ image   |-> << {"Maqsad"}, {"Kompozitsiya", "ru:Kompozitsiya"}, {"Mavzu", "ru:Detali"},
                     {"Uslub", "ru:Stil"}, {"Kamera", "ru:Kamera"}, {"Chiqish", "ru:Parametry"},
                     {"Nimalar", "ru:Isklyuchit"}, {"Tekshirish", "ru:Utochnyayushchij"} >>,
      video   |-> << {"Maqsad", "ru:Tsel"}, {"Syujet", "ru:Stseny"}, {"Kadr", "ru:Shot"},
                     {"Ovoz", "ru:Ozvuchka"}, {"Chiqish", "ru:Parametry"},
                     {"Tekshirish", "ru:Utochnyayushchij"} >>,
      coding  |-> << {"Maqsad", "ru:Tsel"}, {"Kirish", "ru:Vhod"}, {"Cheklov", "ru:Ogranich"},
                     {"Chiqish", "ru:Format"}, {"Qadam", "ru:Shag"}, {"Test", "ru:Test"},
                     {"Tekshirish", "ru:Utochnyayushchij"} >>,
      chatgpt |-> << {"Maqsad", "ru:Tsel"}, {"Rollar", "ru:Roli"}, {"Qadam", "ru:Shag"},
                     {"Misol", "ru:Primer"}, {"Cheklov", "ru:Ogranich"},
                     {"Tekshirish", "ru:Utochnyayushchij"} >> ]

\* the minimum-length threshold of score_output
MinLen == 600

\* the length factors 1.0 and 0.8, and the cascade threshold 0.8, in tenths
FullFactor == 10
ShortFactor == 8
CascadeThreshold == 8

\* re.search(pat, text, re.I): some alternative occurs in the text, in any letter case
\* (no word of the table occurs inside another one)
Search(pat, t) == \E alt \in pat : alt \in t.words

\* len(text.strip())
StrippedLen(t) == t.body

\* the checklist score_output uses for a mode
Needed(mode) == Get(checks, mode, <<>>)

Hits(mode, t) == Cardinality({i \in 1..Len(Needed(mode)) : Search(Needed(mode)[i], t)})

Max(a, b) == IF a >= b THEN a ELSE b

\* faulty variant: a short text is scaled by 0.7
score_output_low(mode, t) ==
    [ num |-> Hits(mode, t) * (IF StrippedLen(t) > MinLen THEN FullFactor ELSE 7),
      den |-> Max(Len(Needed(mode)), 1) * 10 ]

\* faulty variant: an unknown mode is scored against the chatgpt checklist
score_output_alias(mode, t) ==
    LET needed == Get(checks, mode, checks["chatgpt"])
        hits   == Cardinality({i \in 1..Len(needed) : Search(needed[i], t)})
    IN  [ num |-> hits * (IF StrippedLen(t) > MinLen THEN FullFactor ELSE ShortFactor),
          den |-> Max(Len(needed), 1) * 10 ]

\* score_output(mode, text) as the exact fraction num/den:
\* hits / max(len(needed), 1) * (1.0 if length_ok else 0.8)
score_output(mode, t) ==
    [ num |-> Hits(mode, t) * (IF StrippedLen(t) > MinLen THEN FullFactor ELSE ShortFactor),
      den |-> Max(Len(Needed(mode)), 1) * 10 ]

\* s < tenths/10 for a score s
ScoreBelow(s, tenths) == s.num * 10 < tenths * s.den

\* a < b for two scores
ScoreLess(a, b) == a.num * b.den < b.num * a.den

----------------------------------------------------------------------------
(* Inputs: generated texts, config documents, templates *)

RuWords ==
    { "ru:Tsel", "ru:Kompozitsiya", "ru:Detali", "ru:Stil", "ru:Kamera", "ru:Parametry",
      "ru:Isklyuchit", "ru:Utochnyayushchij", "ru:Stseny", "ru:Shot", "ru:Ozvuchka",
      "ru:Vhod", "ru:Ogranich", "ru:Format", "ru:Shag", "ru:Test", "ru:Roli", "ru:Primer" }

Words(mode) == UNION {checks[mode][i] : i \in 1..Len(checks[mode])}

\* the headers of a complete answer for a mode, written in Uzbek or in Russian
\* (a Russian image answer opens with the Russian word for "goal")
Headers(mode, lang) ==
    IF lang = "uz" THEN Words(mode) \ RuWords
    ELSE (Words(mode) \cap RuWords) \cup (IF mode = "image" THEN {"ru:Tsel"} ELSE {})

\* the header sets of answers that lack at most MaxDropped headers
HeaderSets ==
    UNION { { Headers(m, l) \ D : D \in {X \in SUBSET Headers(m, l) : Cardinality(X) <= MaxDropped} }
            : m \in SUPPORTED_MODES, l \in {"uz", "ru"} }

EmptyText == [words |-> {}, body |-> 0, ws |-> 0, upper |-> FALSE]

\* texts with the given stripped lengths, surrounding whitespace and letter cases
TextsOf(bodies, wss, uppers) ==
    { [words |-> W, body |-> b, ws |-> w, upper |-> u] :
        W \in HeaderSets \ {{}}, b \in bodies, w \in wss, u \in uppers }
    \cup { [EmptyText EXCEPT !.ws = w] : w \in wss }

\* what the backend may generate on the first attempt
FirstTexts == TextsOf({ShortBody, MinLen, MinLen + 1}, {0}, {FALSE})

\* what the fallback model may generate: nothing, a short or a long complete answer
FallbackTexts(mode) ==
    { EmptyText,
      [words |-> Headers(mode, "uz"), body |-> ShortBody, ws |-> 0, upper |-> FALSE],
      [words |-> Headers(mode, "uz"), body |-> MinLen + 1, ws |-> 0, upper |-> FALSE] }

\* config.yaml: no file; a custom model; an empty model and a zero context size;
\* a context size written as a string; a negative context size
ConfigDocs ==
    { <<>>,
      [model |-> YStr("llama3:70b"), num_ctx |-> YInt(8192)],
      [model |-> YStr(""), num_ctx |-> YInt(0)],
      [num_ctx |-> YStr("4096"), keep_alive |-> YStr("5m")],
      [model |-> YStr("llama3:70b"), num_ctx |-> YInt(-1)] }

\* the two system prompts as shipped: the Uzbek one names "uz", the Russian one does not
ShippedSystems == [uz |-> <<"u", "z">>, ru |-> <<"r", "u">>]

\* templates/modes.yaml documents: all four modes; no video entry and no sections for image
ModesSpecs ==
    { [ chatgpt |-> [sections |-> <<"Maqsad", "Rollar">>],
        image   |-> [sections |-> <<"Maqsad", "Kompozitsiya">>],
        video   |-> [sections |-> <<"Maqsad", "Syujet">>],
        coding  |-> [sections |-> <<"Maqsad", "Kirish">>] ],
      [ chatgpt |-> [sections |-> <<"Maqsad", "Rollar">>],
        image   |-> <<>>,
        coding  |-> [sections |-> <<"Maqsad", "Kirish">>] ] }

ShippedModes == CHOOSE m \in ModesSpecs : "video" \in DOMAIN m

----------------------------------------------------------------------------
(* Backend traffic *)

\* preload_keepalive(base_url, model, keep_alive): one POST, whatever comes of it
Ping(model, keep_alive, outcome) ==
    [kind |-> "ping", model |-> model, keep_alive |-> keep_alive, outcome |-> outcome]

PingOutcomes == {"ok", "error", "timeout"}

\* PromptRefiner.run_once(model, num_ctx, prompt, stream): one generation call, which
\* returns a text (ok) or raises
Generate(model, num_ctx, p, stream, ok, returned) ==
    [kind |-> "generate", model |-> model, num_ctx |-> num_ctx, prompt |-> p,
     stream |-> stream, ok |-> ok, returned |-> returned]

----------------------------------------------------------------------------
(* Command line: prompt_engineer_ai.py __main__ *)

CliArgs ==
    { [prompt |-> "rasm chiz: qizil mashina", mode |-> m, profile |-> p, cascade |-> c,
       model |-> o[1], num_ctx |-> o[2], no_stream |-> ns] :
        m \in SUPPORTED_MODES, p \in {"speed", "balanced", "max"}, c \in BOOLEAN,
        o \in {<<None, <<>>>>, <<"llama3:8b", <<1024>>>>}, ns \in BOOLEAN }

\* faulty variant: the fallback also runs when the score equals the threshold
NeedsFallbackAtMost(mode, t) ==
    LET s == score_output(mode, t) IN s.num * 10 <= CascadeThreshold * s.den

\* `s < 0.8` on the score of the first attempt
NeedsFallback(mode, t) == ScoreBelow(score_output(mode, t), CascadeThreshold)

\* the model of the fallback attempt
FallbackModel == "gpt-oss:20b"

\* faulty variant: the fallback keeps the context size of the first attempt
FallbackNumCtxResolved(cfg, first) == first.num_ctx

\* the context size of the fallback attempt (first: the pair of the first attempt)
FallbackNumCtx(cfg, first) == cfg.num_ctx

\* the final print of the run
FinalPrint(no_stream) == IF no_stream THEN "text" ELSE "\n"

\* lines 197-233: load the config, parse the arguments, resolve the preset and the
\* overrides, build the refiner and the prompt
CliStart ==
    /\ entry = "cli" /\ pc = "cli_start"
    /\ \E outcome \in DetectOutcomes :
        LET cfg  == load_config(cfgDoc)
            prof == presets(cfg)[args.profile]
        IN  /\ resolved' = [model   |-> StrOr(args.model, prof.model),
                            num_ctx |-> IntOr(args.num_ctx, prof.num_ctx)]
            /\ prompt' = make_prompt(args.prompt, args.mode, cfg, systems, modes_spec, outcome)
    /\ pc' = "cli_first"
    /\ UNCHANGED <<entry, cfgDoc, systems, modes_spec, args, text, log, result,
                   history, engineer_mode, engineer_submode, printed>>

\* lines 235-239 (and 243-246 when no fallback follows): the first attempt and its scoring
CliFirstCall ==
    /\ entry = "cli" /\ pc = "cli_first"
    /\ \/ \E t \in FirstTexts :
            /\ log' = Append(log, Generate(resolved.model, resolved.num_ctx, prompt,
                                           ~args.no_stream, TRUE, t))
            /\ text' = t
            /\ IF args.cascade /\ NeedsFallback(args.mode, t)
               THEN pc' = "cli_fallback" /\ printed' = "[Auto-fallback -> gpt-oss:20b for higher quality]"
               ELSE pc' = "cli_done" /\ printed' = FinalPrint(args.no_stream)
            /\ UNCHANGED result
       \/ /\ log' = Append(log, Generate(resolved.model, resolved.num_ctx, prompt,
                                         ~args.no_stream, FALSE, EmptyText))
          /\ pc' = "cli_raised"
          /\ result' = "backend error"
          /\ UNCHANGED <<text, printed>>
    /\ UNCHANGED <<entry, cfgDoc, systems, modes_spec, args, resolved, prompt,
                   history, engineer_mode, engineer_submode>>

\* lines 240-246: the fallback attempt
CliFallbackCall ==
    /\ entry = "cli" /\ pc = "cli_fallback"
    /\ LET cfg == load_config(cfgDoc)
       IN \/ \E t \in FallbackTexts(args.mode) :
               /\ log' = Append(log, Generate(FallbackModel, FallbackNumCtx(cfg, resolved),
                                              prompt, ~args.no_stream, TRUE, t))
               /\ text' = t
               /\ pc' = "cli_done"
               /\ printed' = FinalPrint(args.no_stream)
               /\ UNCHANGED result
          \/ /\ log' = Append(log, Generate(FallbackModel, FallbackNumCtx(cfg, resolved),
                                            prompt, ~args.no_stream, FALSE, EmptyText))
             /\ pc' = "cli_raised"
             /\ result' = "backend error"
             /\ UNCHANGED <<text, printed>>
    /\ UNCHANGED <<entry, cfgDoc, systems, modes_spec, args, resolved, prompt,
                   history, engineer_mode, engineer_submode>>

\* the shell's state before a shell exists
NoShell ==
    /\ history = <<>>
    /\ engineer_mode = FALSE
    /\ engineer_submode = "chatgpt"
    /\ printed = ""

InitCli ==
    /\ entry = "cli"
    /\ cfgDoc \in {<<>>, [model |-> YStr("llama3:70b"), num_ctx |-> YInt(8192)]}
    /\ systems = ShippedSystems
    /\ modes_spec = ShippedModes
    /\ args \in CliArgs
    /\ pc = "cli_start"
    /\ resolved = [model |-> None, num_ctx |-> 0]
    /\ prompt = <<>>
    /\ text = EmptyText
    /\ log = <<>>
    /\ result = None
    /\ NoShell

NextCli == CliStart \/ CliFirstCall \/ CliFallbackCall

SpecCli == InitCli /\ [][NextCli]_vars

----------------------------------------------------------------------------
(* Claims about the command line's cascade *)

\* the first attempt of the run returned a text
FirstReturned == Len(log) >= 1 /\ log[1].kind = "generate" /\ log[1].ok

\* the score of the first attempt's text
FirstScore == score_output(args.mode, log[1].returned)

\* every marker of the mode's checklist occurs in the text
Complete(mode, t) == Hits(mode, t) = Len(checks[mode])

\* C1: in a cascade-enabled run whose first attempt scores at least 0.8, the run has
\* made exactly one generation call, is over, and holds the first attempt's text.
C1_NoFallbackWhenGood ==
    (entry = "cli" /\ args.cascade /\ FirstReturned /\ ~ScoreBelow(FirstScore, CascadeThreshold))
    => /\ Len(log) = 1
       /\ pc = "cli_done"
       /\ text = log[1].returned

\* a finished cascade run whose first text lacks a header, is long, and scores 5/6 or more
C1_Witness ==
    /\ entry = "cli" /\ args.cascade /\ pc = "cli_done" /\ FirstReturned
    /\ ~Complete(args.mode, log[1].returned)
    /\ ~ScoreBelow(FirstScore, CascadeThreshold)
    /\ Len(log) = 1

\* C2: in a cascade-enabled run whose first attempt scores below 0.8, the fallback call
\* is the second and last call: it runs gpt-oss:20b with the config's num_ctx on the
\* prompt of the first attempt, and a finished run holds the fallback's text.
C2_ExactlyOneFallback ==
    (entry = "cli" /\ args.cascade /\ FirstReturned /\ ScoreBelow(FirstScore, CascadeThreshold))
    => \/ pc = "cli_fallback" /\ Len(log) = 1
       \/ /\ Len(log) = 2
          /\ log[2].kind = "generate"
          /\ log[2].model = "gpt-oss:20b"
          /\ log[2].num_ctx = PyInt(Get(cfgDoc, "num_ctx", YInt(DefaultNumCtx)))
          /\ log[2].prompt = log[1].prompt
          /\ IF log[2].ok THEN pc = "cli_done" /\ text = log[2].returned
                          ELSE pc = "cli_raised"

\* a finished run whose fallback text scores below 0.8 too, with a config that names
\* another model and a context size that is neither the profile's nor the override
C2_Witness ==
    /\ entry = "cli" /\ args.cascade /\ pc = "cli_done" /\ Len(log) = 2
    /\ ScoreBelow(FirstScore, CascadeThreshold)
    /\ ScoreBelow(score_output(args.mode, text), CascadeThreshold)
    /\ log[2].num_ctx /= log[1].num_ctx
    /\ load_config(cfgDoc).model /= "gpt-oss:20b"

\* C8: a text that matches every marker of its mode but is at most 600 characters long
\* when stripped scores strictly less than the same text made longer, and in a
\* cascade-enabled run it does not trigger the fallback.
C8_ShortCompletePenalizedOnly ==
    (entry = "cli" /\ FirstReturned /\ Complete(args.mode, log[1].returned)
       /\ StrippedLen(log[1].returned) <= MinLen)
    => /\ ScoreLess(FirstScore,
                    score_output(args.mode, [log[1].returned EXCEPT !.body = MinLen + 1]))
       /\ ~ScoreBelow(FirstScore, CascadeThreshold)
       /\ Len(log) = 1
       /\ pc = "cli_done"

\* a finished cascade run whose only text is complete and exactly 600 characters long
C8_Witness ==
    /\ entry = "cli" /\ args.cascade /\ pc = "cli_done" /\ FirstReturned
    /\ Complete(args.mode, text)
    /\ StrippedLen(text) = MinLen
    /\ Len(log) = 1

\* the traffic in log belongs to a refinement (the shell's raw chat is none)
IsRefinement == entry \in {"cli", "lib", "http"} \/ (entry = "shell" /\ engineer_mode)

Pings == {i \in 1..Len(log) : log[i].kind = "ping"}
Generations == {i \in 1..Len(log) : log[i].kind = "generate"}

\* C7: on every refinement path, once a generation call is made, exactly one keep-warm
\* ping has been issued, before the first generation call and for its model.
C7_PingBeforeGeneration ==
    (IsRefinement /\ Generations /= {})
    => /\ Cardinality(Pings) = 1
       /\ \A i \in Pings : \A j \in Generations : i < j
       /\ \A i \in Pings : log[i].model = log[i + 1].model

----------------------------------------------------------------------------
(* Library entry point refine() and the HTTP facade *)

\* an argument or a body field that was not given
Absent == "<absent>"

\* the value of a parameter or field with a default
OrDefault(v, default) == IF v = Absent THEN default ELSE v

ModeInputs == SUPPORTED_MODES \cup {"audio", Absent}
ProfileInputs == {"speed", "balanced", "max", "", "turbo", Absent}

\* what the backend may generate for a refinement request
LibTexts == FallbackTexts("chatgpt")

\* PromptRefiner.refine: the keep-warm ping, the prompt, one generation call
RefinerRefine(cfg, raw_prompt, mode, model, num_ctx, stream, po, outcome, ok, t) ==
    LET p == make_prompt(raw_prompt, mode, cfg, systems, modes_spec, outcome)
    IN  [ prompt |-> p,
          log    |-> << Ping(model, cfg.keep_alive, po),
                        Generate(model, num_ctx, p, stream, ok, t) >> ]

\* refine(text, mode, profile) of prompt_engineer_ai.py
LibRefine(txt, mode, profile, po, outcome, ok, t) ==
    LET cfg  == load_config(cfgDoc)
        prof == ResolveProfile(profile, cfg)
        r    == RefinerRefine(cfg, txt, mode, prof.model, prof.num_ctx, FALSE, po, outcome, ok, t)
    IN  [resolved |-> prof, prompt |-> r.prompt, log |-> r.log]

\* a direct call of refine(): it returns the text or raises the backend's error
Refine ==
    /\ entry = "lib" /\ pc = "lib_start"
    /\ \E po \in PingOutcomes, outcome \in DetectOutcomes, ok \in BOOLEAN,
          t \in LibTexts :
        LET r == LibRefine(args.text, OrDefault(args.mode, "chatgpt"),
                           OrDefault(args.profile, "balanced"), po, outcome, ok,
                           IF ok THEN t ELSE EmptyText)
        IN  /\ resolved' = r.resolved
            /\ prompt' = r.prompt
            /\ log' = r.log
            /\ text' = IF ok THEN t ELSE text
            /\ pc' = IF ok THEN "lib_returned" ELSE "lib_raised"
            /\ result' = IF ok THEN "text" ELSE "backend error"
    /\ UNCHANGED <<entry, cfgDoc, systems, modes_spec, args,
                   history, engineer_mode, engineer_submode, printed>>

\* the profile refine_prompt passes on: request.profile or "speed"
RequestProfile(profile) == StrOr(OrDefault(profile, "speed"), "speed")

\* POST /refine: the body is validated (PromptRequest), then refine() runs
RefinePrompt ==
    /\ entry = "http" /\ pc = "http_start"
    /\ IF args.text = Absent \/ OrDefault(args.mode, "chatgpt") \notin SUPPORTED_MODES
       THEN /\ pc' = "http_responded"
            /\ result' = [status |-> 422]
            /\ UNCHANGED <<resolved, prompt, log, text>>
       ELSE \E po \in PingOutcomes, outcome \in DetectOutcomes, ok \in BOOLEAN,
               t \in LibTexts :
            LET r == LibRefine(args.text, OrDefault(args.mode, "chatgpt"),
                               RequestProfile(args.profile), po, outcome, ok,
                               IF ok THEN t ELSE EmptyText)
            IN  /\ resolved' = r.resolved
                /\ prompt' = r.prompt
                /\ log' = r.log
                /\ text' = IF ok THEN t ELSE text
                /\ pc' = "http_responded"
                /\ result' = IF ok
                             THEN [status |-> 200, input |-> args.text,
                                   mode |-> OrDefault(args.mode, "chatgpt"),
                                   profile |-> OrDefault(args.profile, "speed"),
                                   refined |-> t]
                             ELSE [status |-> 500]
    /\ UNCHANGED <<entry, cfgDoc, systems, modes_spec, args,
                   history, engineer_mode, engineer_submode, printed>>

InitLib ==
    /\ entry \in {"lib", "http"}
    /\ cfgDoc \in ConfigDocs
    /\ systems = ShippedSystems
    /\ modes_spec = ShippedModes
    /\ args \in { [text |-> x, mode |-> m, profile |-> p] :
                    x \in {"rasm chiz: qizil mashina"} \cup (IF entry = "http" THEN {Absent} ELSE {}),
                    m \in ModeInputs, p \in ProfileInputs }
    /\ pc = IF entry = "lib" THEN "lib_start" ELSE "http_start"
    /\ resolved = [model |-> None, num_ctx |-> 0]
    /\ prompt = <<>>
    /\ text = EmptyText
    /\ log = <<>>
    /\ result = None
    /\ NoShell

NextLib == Refine \/ RefinePrompt

SpecLib == InitLib /\ [][NextLib]_vars

----------------------------------------------------------------------------
(* Claims about profile resolution *)

KnownProfiles == {"speed", "balanced", "max"}

\* the request's generation call was made
Generated == Generations /= {}

\* every call of the request, ping or generation, used this model, and every
\* generation this context size
AllCallsUse(model, num_ctx) ==
    /\ \A i \in 1..Len(log) : log[i].model = model
    /\ \A i \in Generations : log[i].num_ctx = num_ctx

\* C3 as stated: every profile string outside speed, balanced, max, the empty one
\* included, resolves to the balanced preset, in a direct call and through POST /refine.
C3_UnknownProfileIsBalanced_AsStated ==
    (entry \in {"lib", "http"} /\ Generated /\ args.profile \notin KnownProfiles \cup {Absent})
    => AllCallsUse("mistral:latest", 4096)

\* C3 amended: a direct call resolves every unknown profile string, the empty one
\* included, to the balanced preset; POST /refine resolves every non-empty unknown
\* profile to the balanced preset and the empty profile to the speed preset.
C3_UnknownProfileIsBalanced ==
    /\ (entry = "lib" /\ Generated /\ args.profile \notin KnownProfiles \cup {Absent})
       => AllCallsUse("mistral:latest", 4096) /\ resolved = [model |-> "mistral:latest", num_ctx |-> 4096]
    /\ (entry = "http" /\ Generated /\ args.profile \notin KnownProfiles \cup {Absent, ""})
       => AllCallsUse("mistral:latest", 4096) /\ resolved = [model |-> "mistral:latest", num_ctx |-> 4096]
    /\ (entry = "http" /\ Generated /\ args.profile = "")
       => AllCallsUse("qwen2.5:7b", 2048)

\* POST /refine answered 200 for an unknown, non-empty profile under a config whose own
\* model and context size differ from the balanced preset
C3_Witness ==
    /\ entry = "http" /\ pc = "http_responded" /\ Generated
    /\ args.profile = "turbo"
    /\ log[2].ok
    /\ load_config(cfgDoc).model = "llama3:70b"
    /\ AllCallsUse("mistral:latest", 4096)

\* C6: every generation call is given a non-empty model identifier and a positive
\* context size, whatever the profile and the config document.
C6_ModelAndContextValid ==
    \A i \in Generations : log[i].model /= "" /\ log[i].num_ctx > 0

----------------------------------------------------------------------------
(* Session shell: chat_shell.py *)

SYSTEM_PROMPT == "You are a helpful, concise assistant. ..."
HELP == "Commands: ..."

SystemMessage(content) == [role |-> "system", content |-> content]
HumanMessage(content) == [role |-> "user", content |-> content]
AIMessage(content) == [role |-> "assistant", content |-> content]

\* ChatShell.__init__: model, num_ctx and keep_alive read from the config document
ShellConfig(oll) ==
    [ model      |-> Get(oll, "model", YStr("gpt-oss:20b")).v,
      num_ctx    |-> PyInt(Get(oll, "num_ctx", YInt(4096))),
      keep_alive |-> PyStr(Get(oll, "keep_alive", YStr("30m"))) ]

\* an input line after strip() and split(): its tokens (<<>> is a blank line)
PlainLines == { <<"salom">>, <<"hi">> }
CommandLines ==
    { <<"/help">>, <<"/HELP">>, <<"/reset">>, <<"/mode">>, <<"/mode", "raw">>,
      <<"/mode", "engineer">>, <<"/mode", "engineer", "image">>,
      <<"/mode", "engineer", "audio">>, <<"/mode", "fast">>, <<"/save">>,
      <<"/save", "out.jsonl">>, <<"/exit">>, <<"/foo">> }

\* the lines the user may type
Lines == {<<>>} \cup PlainLines \cup CommandLines

\* user.startswith("/")
IsCommand(line) == line \in CommandLines

\* str.lower() on the command words
Lower(tok) == IF tok = "/HELP" THEN "/help" ELSE tok

\* parts[0].lower()
Cmd(line) == Lower(line[1])

\* what a raw chat stream may deliver: chunks of characters, then the end or an error
ChatStreams ==
    { [chunks |-> << <<"o">>, <<"k">> >>, ok |-> TRUE],
      [chunks |-> << <<"o", "k">>, <<"!">> >>, ok |-> TRUE],
      [chunks |-> << <<"o">> >>, ok |-> FALSE],
      [chunks |-> <<>>, ok |-> FALSE] }

\* "".join(chunks)
RECURSIVE Join(_)
Join(chunks) == IF chunks = <<>> THEN <<>> ELSE Head(chunks) \o Join(Tail(chunks))

\* what the backend may generate for an engineer turn
ShellTexts(mode) == { [words |-> Headers(mode, "uz"), body |-> MinLen + 1, ws |-> 0, upper |-> FALSE] }

\* the history may grow by one more pair
RoomForTurn == Len(history) < 1 + 2 * MaxTurns

\* faulty variant: the user's message is appended before the stream is read
HistoryAfterRawEager(h, user, stream) ==
    IF stream.ok THEN h \o <<HumanMessage(user), AIMessage(Join(stream.chunks))>>
    ELSE Append(h, HumanMessage(user))

\* lines 91-104: the history after a raw turn whose stream ended or failed
HistoryAfterRaw(h, user, stream) ==
    IF stream.ok THEN h \o <<HumanMessage(user), AIMessage(Join(stream.chunks))>>
    ELSE h

\* line 117: the history after /reset
ResetHistory == <<SystemMessage(SYSTEM_PROMPT)>>

\* lines 139-142: the records /save writes
Transcript(h) ==
    [i \in 1..Len(h) |->
        [role |-> IF h[i].role = "system" THEN "system"
                  ELSE IF h[i].role = "user" THEN "user" ELSE "assistant",
         content |-> h[i].content]]

ShellFixed == <<entry, cfgDoc, systems, modes_spec, args, resolved, prompt, text>>

\* a blank line: the loop reads again
ReadBlank ==
    /\ entry = "shell" /\ pc = "shell_reading"
    /\ \E line \in Lines : line = <<>>
    /\ printed' = "you > "
    /\ log' = <<>> /\ result' = None
    /\ UNCHANGED <<pc, history, engineer_mode, engineer_submode>>
    /\ UNCHANGED ShellFixed

\* Ctrl-C or end of input at the prompt
Interrupt ==
    /\ entry = "shell" /\ pc = "shell_reading"
    /\ \E cause \in {"KeyboardInterrupt", "EOFError"} : result' = cause
    /\ printed' = "bye!"
    /\ pc' = "shell_ended"
    /\ log' = <<>>
    /\ UNCHANGED <<history, engineer_mode, engineer_submode>>
    /\ UNCHANGED ShellFixed

CmdHelp ==
    /\ entry = "shell" /\ pc = "shell_reading"
    /\ \E line \in Lines : IsCommand(line) /\ Cmd(line) = "/help"
    /\ printed' = HELP
    /\ log' = <<>> /\ result' = None
    /\ UNCHANGED <<pc, history, engineer_mode, engineer_submode>>
    /\ UNCHANGED ShellFixed

CmdReset ==
    /\ entry = "shell" /\ pc = "shell_reading"
    /\ \E line \in Lines : IsCommand(line) /\ Cmd(line) = "/reset"
    /\ history' = ResetHistory
    /\ printed' = "[memory cleared]"
    /\ log' = <<>> /\ result' = None
    /\ UNCHANGED <<pc, engineer_mode, engineer_submode>>
    /\ UNCHANGED ShellFixed

CmdMode ==
    /\ entry = "shell" /\ pc = "shell_reading"
    /\ \E line \in Lines :
        /\ IsCommand(line) /\ Cmd(line) = "/mode"
        /\ IF Len(line) < 2
           THEN /\ printed' = "usage: /mode raw | /mode engineer [submode]"
                /\ UNCHANGED <<engineer_mode, engineer_submode>>
           ELSE IF line[2] = "raw"
           THEN /\ engineer_mode' = FALSE
                /\ printed' = "[mode=raw: gpt-oss:20b]"
                /\ UNCHANGED engineer_submode
           ELSE IF line[2] = "engineer"
           THEN /\ engineer_mode' = TRUE
                /\ engineer_submode' = IF Len(line) > 2 /\ line[3] \in SUPPORTED_MODES
                                       THEN line[3] ELSE engineer_submode
                /\ printed' = "[mode=engineer on gpt-oss:20b]"
           ELSE /\ printed' = "unknown mode"
                /\ UNCHANGED <<engineer_mode, engineer_submode>>
    /\ log' = <<>> /\ result' = None
    /\ UNCHANGED <<pc, history>>
    /\ UNCHANGED ShellFixed

\* /save [path]: the transcript is written, or open() fails and the error ends the shell
CmdSave ==
    /\ entry = "shell" /\ pc = "shell_reading"
    /\ \E line \in Lines :
        /\ IsCommand(line) /\ Cmd(line) = "/save"
        /\ LET path == IF Len(line) > 1 THEN line[2] ELSE "data/logs/chat_<timestamp>.jsonl"
           IN \/ /\ result' = [path |-> path, records |-> Transcript(history)]
                 /\ printed' = "[saved]"
                 /\ pc' = pc
              \/ /\ result' = None
                 /\ printed' = "Traceback: OSError"
                 /\ pc' = "shell_crashed"
    /\ log' = <<>>
    /\ UNCHANGED <<history, engineer_mode, engineer_submode>>
    /\ UNCHANGED ShellFixed

CmdExit ==
    /\ entry = "shell" /\ pc = "shell_reading"
    /\ \E line \in Lines : IsCommand(line) /\ Cmd(line) = "/exit"
    /\ pc' = "shell_ended"
    /\ printed' = "you > "
    /\ result' = "/exit"
    /\ log' = <<>>
    /\ UNCHANGED <<history, engineer_mode, engineer_submode>>
    /\ UNCHANGED ShellFixed

CmdUnknown ==
    /\ entry = "shell" /\ pc = "shell_reading"
    /\ \E line \in Lines : IsCommand(line) /\ Cmd(line) \notin {"/help", "/reset", "/mode", "/save", "/exit"}
    /\ printed' = "unknown command; /help"
    /\ log' = <<>> /\ result' = None
    /\ UNCHANGED <<pc, history, engineer_mode, engineer_submode>>
    /\ UNCHANGED ShellFixed

\* lines 82-88: an engineer turn; an error of refine() is not caught by the loop
TurnEngineer ==
    /\ entry = "shell" /\ pc = "shell_reading" /\ engineer_mode /\ RoomForTurn
    /\ \E line \in {l \in Lines : l /= <<>> /\ ~IsCommand(l)}, po \in PingOutcomes,
          outcome \in DetectOutcomes, ok \in BOOLEAN, t \in ShellTexts(engineer_submode) :
        LET r == RefinerRefine(load_config(cfgDoc), line, engineer_submode, resolved.model,
                               resolved.num_ctx, FALSE, po, outcome, ok,
                               IF ok THEN t ELSE EmptyText)
        IN  /\ log' = r.log
            /\ IF ok
               THEN /\ printed' = "text"
                    /\ history' = history \o <<HumanMessage(line), AIMessage(t)>>
                    /\ pc' = pc
               ELSE /\ printed' = "Traceback: backend error"
                    /\ history' = history
                    /\ pc' = "shell_crashed"
    /\ result' = None
    /\ UNCHANGED <<engineer_mode, engineer_submode>>
    /\ UNCHANGED ShellFixed

\* lines 89-104: a raw chat turn; an error of the stream is printed inline
TurnRaw ==
    /\ entry = "shell" /\ pc = "shell_reading" /\ ~engineer_mode /\ RoomForTurn
    /\ \E line \in {l \in Lines : l /= <<>> /\ ~IsCommand(l)}, stream \in ChatStreams :
        /\ log' = << Generate(resolved.model, resolved.num_ctx,
                              history \o <<HumanMessage(line)>>, TRUE, stream.ok,
                              IF stream.ok THEN Join(stream.chunks) ELSE <<>>) >>
        /\ history' = HistoryAfterRaw(history, line, stream)
        /\ printed' = IF stream.ok THEN "assistant > ..." ELSE "[chat error]"
    /\ result' = None
    /\ UNCHANGED <<pc, engineer_mode, engineer_submode>>
    /\ UNCHANGED ShellFixed

\* ChatShell(): the state after __init__, whose prewarm ping is in log
InitShell ==
    /\ entry = "shell"
    /\ cfgDoc \in {<<>>, [model |-> YStr("llama3:70b"), num_ctx |-> YInt(8192)]}
    /\ systems = ShippedSystems
    /\ modes_spec = ShippedModes
    /\ args = <<>>
    /\ pc = "shell_reading"
    /\ resolved = [model |-> ShellConfig(cfgDoc).model, num_ctx |-> ShellConfig(cfgDoc).num_ctx]
    /\ prompt = <<>>
    /\ text = EmptyText
    /\ \E po \in PingOutcomes :
         log = <<Ping(ShellConfig(cfgDoc).model, ShellConfig(cfgDoc).keep_alive, po)>>
    /\ result = None
    /\ history = <<SystemMessage(SYSTEM_PROMPT)>>
    /\ engineer_mode = FALSE
    /\ engineer_submode = "chatgpt"
    /\ printed = HELP

NextShell ==
    \/ ReadBlank \/ Interrupt
    \/ CmdHelp \/ CmdReset \/ CmdMode \/ CmdSave \/ CmdExit \/ CmdUnknown
    \/ TurnEngineer \/ TurnRaw

SpecShell == InitShell /\ [][NextShell]_vars

----------------------------------------------------------------------------
(* Claims about the shell *)

\* the backend generation call of the current turn failed
TurnFailed == \E i \in Generations : ~log[i].ok

\* C5: whenever a turn's backend generation call fails, in raw and in engineer mode,
\* the shell prints the inline error and goes on reading input.
C5_BackendErrorContinues ==
    (entry = "shell" /\ TurnFailed) => (pc = "shell_reading" /\ printed = "[chat error]")

\* one system turn, then (user, assistant) pairs
WellFormed(h) ==
    /\ Len(h) >= 1 /\ Len(h) % 2 = 1
    /\ h[1] = SystemMessage(SYSTEM_PROMPT)
    /\ \A i \in 2..Len(h) : h[i].role = IF i % 2 = 0 THEN "user" ELSE "assistant"

CommandOutputs ==
    { HELP, "usage: /mode raw | /mode engineer [submode]", "[mode=raw: gpt-oss:20b]",
      "[mode=engineer on gpt-oss:20b]", "unknown mode", "[saved]", "Traceback: OSError",
      "unknown command; /help" }

\* C10: the shell's history is always one system turn followed by (user, assistant)
\* pairs; a turn whose backend call fails appends nothing, a command other than /reset
\* leaves the history unchanged, and /reset sets it back to the single system turn.
C10_HistoryShape ==
    /\ [](entry = "shell" => WellFormed(history))
    /\ [][ (entry = "shell")
           => /\ TurnFailed' => history' = history
              /\ printed' \in CommandOutputs => history' = history
              /\ printed' = "[memory cleared]" => history' = <<SystemMessage(SYSTEM_PROMPT)>>
              /\ history' \in { history, <<SystemMessage(SYSTEM_PROMPT)>> }
                   \/ (Len(history') = Len(history) + 2 /\ SubSeq(history', 1, Len(history)) = history)
         ]_vars

\* a raw turn has failed after a successful turn, and the history still holds that one pair
C10_Witness ==
    /\ entry = "shell" /\ pc = "shell_reading"
    /\ TurnFailed /\ printed = "[chat error]"
    /\ Len(history) = 3

----------------------------------------------------------------------------
(* The template resolver and the scorer on their own *)

\* texts in both letter cases, with and without surrounding whitespace
ScoreTexts == TextsOf({ShortBody, MinLen, MinLen + 1}, {0, 2}, BOOLEAN)

\* build_instruction(args.mode, modes_spec) is called
BuildInstruction ==
    /\ entry = "score" /\ pc = "score_start"
    /\ prompt' = build_instruction(args.mode, modes_spec)
    /\ pc' = "score_built"
    /\ UNCHANGED <<entry, cfgDoc, systems, modes_spec, args, resolved, text, log, result,
                   history, engineer_mode, engineer_submode, printed>>

\* score_output(args.mode, args.text) is called
ScoreOutput ==
    /\ entry = "score" /\ pc = "score_built"
    /\ result' = score_output(args.mode, args.text)
    /\ pc' = "score_done"
    /\ UNCHANGED <<entry, cfgDoc, systems, modes_spec, args, resolved, prompt, text, log,
                   history, engineer_mode, engineer_submode, printed>>

InitScore ==
    /\ entry = "score"
    /\ cfgDoc = <<>>
    /\ systems = ShippedSystems
    /\ modes_spec \in ModesSpecs
    /\ args \in { [mode |-> m, text |-> t] :
                    m \in SUPPORTED_MODES \cup {"audio", ""}, t \in ScoreTexts }
    /\ pc = "score_start"
    /\ resolved = [model |-> None, num_ctx |-> 0]
    /\ prompt = <<>>
    /\ text = EmptyText
    /\ log = <<>>
    /\ result = [num |-> 0, den |-> 1]
    /\ NoShell

NextScore == BuildInstruction \/ ScoreOutput

SpecScore == InitScore /\ [][NextScore]_vars

\* the checklist of chatgpt in the loaded mode table, rendered
ChatgptInstruction ==
    LET sections == modes_spec["chatgpt"].sections
    IN  <<"Bo'limlar / ru:Razdely:">> \o [i \in 1..Len(sections) |-> <<"- ", sections[i]>>]

\* C4 as stated: for a mode outside chatgpt, image, video, coding, build_instruction
\* returns the instruction of chatgpt and score_output the score of chatgpt.
C4_UnknownModeAliases_AsStated ==
    (entry = "score" /\ pc = "score_done" /\ args.mode \notin SUPPORTED_MODES)
    => /\ prompt = ChatgptInstruction
       /\ ~ScoreLess(result, score_output("chatgpt", args.text))
       /\ ~ScoreLess(score_output("chatgpt", args.text), result)

\* C4 amended: for a mode outside chatgpt, image, video, coding, build_instruction
\* returns the instruction of chatgpt, and score_output returns 0 for every text.
C4_UnknownModeAliases ==
    (entry = "score" /\ pc = "score_done" /\ args.mode \notin SUPPORTED_MODES)
    => /\ prompt = ChatgptInstruction
       /\ result.num = 0 /\ result.den > 0

\* an unknown mode scored 0 on a long text that holds every chatgpt header
C4_Witness ==
    /\ entry = "score" /\ pc = "score_done" /\ args.mode = "audio"
    /\ Complete("chatgpt", args.text) /\ StrippedLen(args.text) > MinLen
    /\ result.num = 0
    /\ prompt = ChatgptInstruction

----------------------------------------------------------------------------
(* The prompt builder on arbitrary system-prompt documents *)

DocChars == {"u", "z", "x"}

\* the documents of at most MaxDocLen characters
Docs == UNION { [1..n -> DocChars] : n \in 0..MaxDocLen }

\* refiner._make_prompt(raw_prompt, mode) is called; result holds the language detected
MakePrompt ==
    /\ entry = "prompt" /\ pc = "prompt_start"
    /\ \E outcome \in DetectOutcomes :
        /\ prompt' = make_prompt(args.raw_prompt, args.mode, load_config(cfgDoc), systems,
                                 modes_spec, outcome)
        /\ result' = detect_lang(outcome)
    /\ pc' = "prompt_done"
    /\ UNCHANGED <<entry, cfgDoc, systems, modes_spec, args, resolved, text, log,
                   history, engineer_mode, engineer_submode, printed>>

InitPrompt ==
    /\ entry = "prompt"
    /\ cfgDoc = <<>>
    /\ systems \in [{"uz", "ru"} -> Docs]
    /\ modes_spec = ShippedModes
    /\ args \in { [raw_prompt |-> r, mode |-> m] :
                    r \in {"rasm chiz: qizil mashina", "ru:sdelaj prompt"}, m \in SUPPORTED_MODES }
    /\ pc = "prompt_start"
    /\ resolved = [model |-> None, num_ctx |-> 0]
    /\ prompt = <<>>
    /\ text = EmptyText
    /\ log = <<>>
    /\ result = None
    /\ NoShell

NextPrompt == MakePrompt

SpecPrompt == InitPrompt /\ [][NextPrompt]_vars

\* C9: the worked example in the prompt is the Russian one when the detected language
\* is ru and the Uzbek one when it is uz or en, whatever the system prompts say.
C9_ExampleMatchesLanguage ==
    (entry = "prompt" /\ pc = "prompt_done")
    => prompt.example = examples[IF result = "ru" THEN "ru" ELSE "uz"]

====
